---------------------------- MODULE Spec2Model ----------------------------
(***************************************************************************)
(* Model of the utility helpers of xstast24/utils:                         *)
(*   - utils.py:        wait_for / _wait_for_variable / _wait_for_callable *)
(*                      count_lines / count_dir_lines / count_file_lines   *)
(*   - enumeration.py:  Enumeration.enum_values / Enumeration.contains     *)
(* The helpers share no state; each has its own specification (SpecWait,   *)
(* SpecEnum, SpecCount, SpecLines) over the variables it owns.  In SpecWait *)
(* the clock advances by time.sleep(period) only; SpecWaitFair adds that   *)
(* the calling thread keeps taking steps.                                  *)
(***************************************************************************)
EXTENDS Integers, Sequences, FiniteSets, TLC

(***************************************************************************)
(* Bounds of the model.                                                    *)
(***************************************************************************)
MaxTimeout == 3        \* timeouts range over -1 .. MaxTimeout (seconds)
MaxPeriod  == 2        \* periods range over 0 .. MaxPeriod (seconds)
ScriptLen  == 3        \* a callable's return values are scripted for ScriptLen calls
MaxLoads   == 2        \* enum_values loads a list at most MaxLoads times in a run
MaxEdits   == 1        \* constants are set or deleted at most MaxEdits times in a run

\* with period >= 1 a run sleeps at most MaxTimeout times; the cap only cuts the
\* endless loop of period = 0 under a clock that does not advance on its own
MaxSleeps == MaxTimeout + 1

VARIABLES
    \* ---- wait_for (utils.py) ----
    condition,       \* the condition argument: a static value or a callable
    expected_value,  \* argument expected_value
    timeout,         \* argument timeout
    period,          \* argument period
    raise_exc,       \* argument raise_exc
    now,             \* time.time()
    end_time,        \* local end_time of wait_for
    latest_value,    \* local latest_value of _wait_for_variable/_wait_for_callable
    result,          \* first component of the poller's return value
    last_value,      \* second component of the poller's return value
    outcome,         \* how wait_for ended: "none" | "returned" | "TimeoutError"
    retval,          \* value returned by wait_for (when outcome = "returned")
    exc,             \* payload of the TimeoutError message (when raised)
    pc,              \* position in wait_for
    calls,           \* number of invocations of the callable so far
    sleeps,          \* number of time.sleep calls so far
    slept,           \* cumulative time spent in time.sleep
    compares,        \* number of comparisons latest_value == expected_value
    last_step,       \* the previous loop step: "none"|"eval"|"equal"|"differ"|"sleep"
    \* ---- Enumeration (enumeration.py) ----
    classdict,       \* cls.__dict__ of every class, in insertion order
    call,            \* the last operation performed on a class, with its arguments
    ret,             \* what that operation returned
    called,          \* classes on which enum_values has run (directly or via contains)
    loads,           \* number of times enum_values (re)loaded a list
    edits,           \* number of setattr/delattr performed on enum classes
    \* ---- count_dir_lines (utils.py) ----
    fs,              \* the file system: a set of directory and file nodes
    dir_path,        \* argument dir_path
    recursive,       \* argument recursive
    file_filters,    \* argument file_filters: None or a list of regex patterns
    todo,            \* entries of the glob result the for loop has yet to visit
    lines,           \* local lines of count_dir_lines
    counted,         \* the files passed to count_file_lines, in call order
    cpc,             \* position in count_dir_lines
    cresult,         \* value returned by count_dir_lines
    \* ---- count_lines / count_dir_lines / count_file_lines as whole calls ----
    lop,             \* the function called last
    lpath,           \* its path argument
    lret,            \* what it did: returned a value or raised FileNotFoundError
    signals          \* how each function has signalled a missing path so far

waitVars == <<condition, expected_value, timeout, period, raise_exc, now, end_time,
              latest_value, result, last_value, outcome, retval, exc, pc, calls,
              sleeps, slept, compares, last_step>>

enumVars == <<classdict, call, ret, called, loads, edits>>

lineVars == <<lop, lpath, lret, signals>>

countVars == <<fs, dir_path, recursive, file_filters, todo, lines, counted, cpc,
               cresult, lineVars>>

vars == <<waitVars, enumVars, countVars>>

(***************************************************************************)
(* count_dir_lines / count_file_lines, utils.py:27-74                      *)
(*                                                                         *)
(* A path is the sequence of its components, a name or a file content the  *)
(* sequence of its characters.  The file system is a set of nodes.         *)
(***************************************************************************)
NL == "\n"

Dir(path)           == [path |-> path, kind |-> "dir", content |-> <<>>]
File(path, content) == [path |-> path, kind |-> "file", content |-> content]

\* n lines "x\n"
RECURSIVE Lines(_)
Lines(n) == IF n = 0 THEN <<>> ELSE <<"x", NL>> \o Lines(n - 1)

\* file and directory names
F_d     == <<"d">>
F_sub   == <<"s", "u", "b">>
F_a_py  == <<"a", ".", "p", "y">>
F_b_py  == <<"b", ".", "p", "y">>
F_c_py  == <<"c", ".", "p", "y">>
F_ab    == <<"a", "b">>
F_h_py  == <<".", "h", ".", "p", "y">>
F_gone  == <<"g", "o", "n", "e">>

\* the directory trees: the directory d/, in which the hidden file .h.py, a.py,
\* b.py, ab and sub/c.py are present or not, with contents that end with or
\* without a newline
FileSystems ==
    { {Dir(<<F_d>>)} \cup h \cup a \cup b \cup ab \cup sub :
        h   \in { {}, {File(<<F_d, F_h_py>>, Lines(2))} },
        a   \in { {}, {File(<<F_d, F_a_py>>, Lines(5))} },
        b   \in { {}, {File(<<F_d, F_b_py>>, Lines(3))}, {File(<<F_d, F_b_py>>, <<"x">>)} },
        ab  \in { {}, {File(<<F_d, F_ab>>, <<>>)} },
        sub \in { {}, {Dir(<<F_d, F_sub>>), File(<<F_d, F_sub, F_c_py>>, Lines(1) \o <<"x">>)} } }

\* regex patterns are sequences of tokens: a literal character, '.', '\w*' or '$'
Lit(ch) == [tok |-> "lit", ch |-> ch]
Dot     == [tok |-> "dot", ch |-> ""]
WStar   == [tok |-> "wstar", ch |-> ""]
End     == [tok |-> "end", ch |-> ""]

R_py   == <<WStar, Dot, Lit("p"), Lit("y")>>                 \* r'\w*.py'
R_a    == <<Lit("a")>>                                       \* r'a'
R_b_py == <<Lit("b"), Lit("."), Lit("p"), Lit("y"), End>>    \* r'b\.py$'

\* the file_filters arguments: None, the empty list, and lists of one or two patterns
NoFilters  == [given |-> FALSE, list |-> <<>>]
Filters(l) == [given |-> TRUE, list |-> l]
FilterArgs ==
    { NoFilters, Filters(<<>>), Filters(<<R_py>>), Filters(<<R_a>>),
      Filters(<<R_b_py>>), Filters(<<R_py, R_a>>), Filters(<<R_a, R_py>>),
      Filters(<<R_b_py, R_py>>) }

\* the character class \w
IsWord(ch) == ch \notin {".", NL, " ", "-", ""}

\* re.match(pattern, string): the pattern from token i matches at position j of the
\* string (a match at the start; the string may go on after it)
RECURSIVE MatchAt(_, _, _, _)
MatchAt(pat, i, str, j) ==
    IF i > Len(pat) THEN TRUE
    ELSE CASE pat[i].tok = "lit" ->
                 j <= Len(str) /\ str[j] = pat[i].ch /\ MatchAt(pat, i + 1, str, j + 1)
           [] pat[i].tok = "dot" ->
                 j <= Len(str) /\ str[j] # NL /\ MatchAt(pat, i + 1, str, j + 1)
           [] pat[i].tok = "wstar" ->
                 \E k \in j .. (Len(str) + 1) :
                    /\ \A m \in j .. (k - 1) : IsWord(str[m])
                    /\ MatchAt(pat, i + 1, str, k)
           [] pat[i].tok = "end" ->
                 j = Len(str) + 1 /\ MatchAt(pat, i + 1, str, j)

re_match(pat, str) == MatchAt(pat, 1, str, 1)

\* os.path.exists / os.path.isfile / os.path.isdir / os.path.basename
exists(f, path) == \E n \in f : n.path = path
isfile(f, path) == \E n \in f : n.path = path /\ n.kind = "file"
isdir(f, path)  == \E n \in f : n.path = path /\ n.kind = "dir"
basename(path)  == path[Len(path)]
ContentOf(f, path) == (CHOOSE n \in f : n.path = path).content

\* glob.glob(os.path.join(dir_path, '**'), recursive=recursive): names starting with
\* a dot are not matched; without recursive '**' lists the directory's own entries,
\* with recursive it yields the directory itself and everything below it
IsHidden(name) == name[1] = "."
Below(path, dir) ==
    /\ Len(path) > Len(dir)
    /\ SubSeq(path, 1, Len(dir)) = dir
    /\ \A i \in (Len(dir) + 1) .. Len(path) : ~IsHidden(path[i])
glob(f, dir, rec) ==
    IF ~isdir(f, dir) THEN {}
    ELSE IF rec THEN {dir} \cup {n.path : n \in {m \in f : Below(m.path, dir)}}
    ELSE {n.path : n \in {m \in f : Below(m.path, dir) /\ Len(m.path) = Len(dir) + 1}}

\* the lines a text file yields when iterated: each ends with its newline, but for
\* a last line that has none
RECURSIVE readlines(_)
readlines(content) ==
    IF content = <<>> THEN <<>>
    ELSE IF \E i \in DOMAIN content : content[i] = NL
       THEN LET k == CHOOSE i \in DOMAIN content :
                        content[i] = NL /\ \A j \in 1 .. (i - 1) : content[j] # NL
            IN  <<SubSeq(content, 1, k)>> \o readlines(SubSeq(content, k + 1, Len(content)))
       ELSE <<content>>

\* utils.py:60-74  count_file_lines: i = 0; for i, l in enumerate(f): pass; return i+1
count_file_lines(f, path) ==
    IF isfile(f, path)
       THEN LET n == Len(readlines(ContentOf(f, path)))
                i == IF n = 0 THEN 0 ELSE n - 1
            IN  i + 1
       ELSE -1

\* one count_file_lines call per matching filter: the loop without its break
RECURSIVE FilterLoopNoBreak(_, _, _)
FilterLoopNoBreak(file, filters, i) ==
    IF i > Len(filters) THEN <<>>
    ELSE IF re_match(filters[i], basename(file))
       THEN <<file>> \o FilterLoopNoBreak(file, filters, i + 1)
       ELSE FilterLoopNoBreak(file, filters, i + 1)

\* utils.py:46-49  for name_filter in file_filters: the files handed to
\* count_file_lines, the loop ending at the first filter that matches
RECURSIVE FilterLoop(_, _, _)
FilterLoop(file, filters, i) ==
    IF i > Len(filters) THEN <<>>
    ELSE IF re_match(filters[i], basename(file))
       THEN <<file>>
       ELSE FilterLoop(file, filters, i + 1)

\* utils.py:43-52  the body of the for loop for one glob entry: the files counted
LoopBody(f, file, filters) ==
    IF isfile(f, file)
       THEN IF filters.given /\ filters.list # <<>>
               THEN FilterLoop(file, filters.list, 1)
               ELSE <<file>>
       ELSE <<>>

RECURSIVE SumLines(_, _)
SumLines(f, files) ==
    IF files = <<>> THEN 0
    ELSE count_file_lines(f, Head(files)) + SumLines(f, Tail(files))

\* utils.py:39-42 and :54-57  if os.path.exists(dir_path): lines = 0; glob ...
\* else: return -1
count_dir_lines_enter ==
    /\ cpc = "count_dir_lines"
    /\ IF exists(fs, dir_path)
          THEN /\ lines' = 0
               /\ todo' = glob(fs, dir_path, recursive)
               /\ cpc' = "for"
               /\ UNCHANGED cresult
          ELSE /\ cresult' = -1
               /\ cpc' = "done"
               /\ UNCHANGED <<lines, todo>>
    /\ UNCHANGED <<fs, dir_path, recursive, file_filters, counted, lineVars, waitVars,
                   enumVars>>

\* utils.py:42-52  one iteration of the for loop, on any entry not yet visited
count_dir_lines_for ==
    /\ cpc = "for"
    /\ \E file \in todo :
         /\ todo' = todo \ {file}
         /\ counted' = counted \o LoopBody(fs, file, file_filters)
         /\ lines' = lines + SumLines(fs, LoopBody(fs, file, file_filters))
    /\ UNCHANGED <<fs, dir_path, recursive, file_filters, cpc, cresult, lineVars,
                   waitVars, enumVars>>

\* utils.py:53  return lines
count_dir_lines_return ==
    /\ cpc = "for"
    /\ todo = {}
    /\ cresult' = lines
    /\ cpc' = "done"
    /\ UNCHANGED <<fs, dir_path, recursive, file_filters, todo, lines, counted,
                   lineVars, waitVars, enumVars>>

NextCount ==
    \/ count_dir_lines_enter
    \/ count_dir_lines_for
    \/ count_dir_lines_return

(***************************************************************************)
(* count_lines, count_dir_lines and count_file_lines as whole calls,       *)
(* utils.py:7-74                                                           *)
(***************************************************************************)
Returned(n) == [kind |-> "returned", value |-> n]
Raised(e)   == [kind |-> e, value |-> 0]

\* utils.py:42-52  the for loop over the glob result, summed
RECURSIVE DirLoop(_, _, _)
DirLoop(f, entries, filters) ==
    IF entries = {} THEN 0
    ELSE LET file == CHOOSE e \in entries : TRUE
         IN  SumLines(f, LoopBody(f, file, filters))
                + DirLoop(f, entries \ {file}, filters)

\* utils.py:27-57  count_dir_lines
count_dir_lines(f, path, rec, filters) ==
    IF exists(f, path)
       THEN Returned(DirLoop(f, glob(f, path, rec), filters))
       ELSE Returned(-1)

\* utils.py:7-24  count_lines
count_lines(f, path, rec, filters) ==
    IF isdir(f, path) THEN count_dir_lines(f, path, rec, filters)
    ELSE IF isfile(f, path) THEN Returned(count_file_lines(f, path))
    ELSE Raised("FileNotFoundError")

\* the paths the functions are called with: directories, files, and a missing path
Paths ==
    { <<F_d>>, <<F_d, F_sub>>, <<F_gone>>, <<F_d, F_a_py>>, <<F_d, F_b_py>>,
      <<F_d, F_ab>>, <<F_d, F_sub, F_c_py>> }

Functions == {"count_lines", "count_dir_lines", "count_file_lines"}

\* how a call on a missing path ended: by the sentinel -1 or by an error
SignalOf(r) == IF r.kind = "returned" THEN "sentinel" ELSE r.kind

LineCall(op, path, r) ==
    /\ lop' = op
    /\ lpath' = path
    /\ lret' = r
    /\ signals' = IF exists(fs, path) THEN signals
                  ELSE [signals EXCEPT ![op] = SignalOf(r)]
    /\ UNCHANGED <<fs, dir_path, recursive, file_filters, todo, lines, counted, cpc,
                   cresult, waitVars, enumVars>>

\* utils.py:7-24  a call count_lines(path, recursive, filters)
count_lines_call(path) ==
    /\ cpc = "idle"
    /\ LineCall("count_lines", path, count_lines(fs, path, recursive, file_filters))

\* utils.py:27-57  a call count_dir_lines(path, recursive, file_filters)
count_dir_lines_call(path) ==
    /\ cpc = "idle"
    /\ LineCall("count_dir_lines", path,
                count_dir_lines(fs, path, recursive, file_filters))

\* utils.py:60-74  a call count_file_lines(path)
count_file_lines_call(path) ==
    /\ cpc = "idle"
    /\ LineCall("count_file_lines", path, Returned(count_file_lines(fs, path)))

NextLines ==
    \/ \E path \in Paths : count_lines_call(path)
    \/ \E path \in Paths : count_dir_lines_call(path)
    \/ \E path \in Paths : count_file_lines_call(path)

(***************************************************************************)
(* Enumeration, enumeration.py:1-52                                        *)
(*                                                                         *)
(* Python values are tagged records: [str |-> chars], [int |-> n],         *)
(* [list |-> elements], [none |-> TRUE], [obj |-> description].  A string  *)
(* is the sequence of its characters.  A class is the ordered sequence of  *)
(* the (name, value) entries of its __dict__.                              *)
(***************************************************************************)
Str(chars)  == [str |-> chars]
List(elems) == [list |-> elems]
None        == [none |-> TRUE]

\* isinstance(v, str)
IsStr(v) == DOMAIN v = {"str"}

\* attribute names
N_module      == <<"_", "_", "m", "o", "d", "u", "l", "e", "_", "_">>
N_doc         == <<"_", "_", "d", "o", "c", "_", "_">>
N_dict        == <<"_", "_", "d", "i", "c", "t", "_", "_">>
N_weakref     == <<"_", "_", "w", "e", "a", "k", "r", "e", "f", "_", "_">>
N_enum_cache  == <<"_", "e", "n", "u", "m", "_", "v", "a", "l", "u", "e", "s">>
N_enum_values == <<"e", "n", "u", "m", "_", "v", "a", "l", "u", "e", "s">>
N_contains    == <<"c", "o", "n", "t", "a", "i", "n", "s">>
N_mon         == <<"m", "o", "n">>
N_tue         == <<"t", "u", "e">>

Entry(n, v) == [name |-> n, value |-> v]

\* the classes: Enumeration itself, an enum class and an enum class derived from it
Classes    == {"Enumeration", "WorkDay", "ExtDay"}
Subclasses == {"WorkDay", "ExtDay"}
Parent(c)  == IF c = "ExtDay" THEN "WorkDay" ELSE "Enumeration"

\* names and values of the constants an enum class declares
ConstNames  == {N_mon, N_tue}
ConstValues == {Str(<<"M", "o">>), [int |-> 5]}
\* items looked up with contains
Items == {Str(<<"m", "o">>), Str(<<"M", "o">>), Str(<<"M", "O">>), [int |-> 5]}

\* enumeration.py:1-52  class Enumeration: its __dict__ after the class statement
EnumerationDict ==
    << Entry(N_module, Str(<<"e">>)),
       Entry(N_doc, Str(<<"d">>)),
       Entry(N_enum_cache, List(<<>>)),
       Entry(N_enum_values, [obj |-> "classmethod enum_values"]),
       Entry(N_contains, [obj |-> "classmethod contains"]),
       Entry(N_dict, [obj |-> "attribute __dict__"]),
       Entry(N_weakref, [obj |-> "attribute __weakref__"]) >>

\* enumeration.py:58-63  class WorkDay(Enumeration): <constants>
\* the __dict__ of a subclass declaring the constants `consts`, in order
SubclassDict(consts) ==
    <<Entry(N_module, Str(<<"e">>))>> \o consts \o <<Entry(N_doc, None)>>

\* the constants a class statement declares: none, one, or two of mixed type
Declarations ==
    { <<>>,
      <<Entry(N_mon, Str(<<"M", "o">>))>>,
      <<Entry(N_mon, Str(<<"M", "o">>)), Entry(N_tue, [int |-> 5])>>,
      <<Entry(N_tue, Str(<<"M", "o">>)), Entry(N_mon, Str(<<"M", "o">>))>> }

\* enumeration.py:58-63  class ExtDay(WorkDay): tue = 5
ExtDayDict == SubclassDict(<<Entry(N_tue, [int |-> 5])>>)

\* name.startswith(prefix)
startswith(name, prefix) ==
    /\ Len(name) >= Len(prefix)
    /\ SubSeq(name, 1, Len(prefix)) = prefix

\* name in cls.__dict__
HasOwn(d, c, n) == \E i \in DOMAIN d[c] : d[c][i].name = n
OwnValue(d, c, n) == d[c][CHOOSE i \in DOMAIN d[c] : d[c][i].name = n].value

\* cls.<n>: attribute lookup along the class hierarchy
RECURSIVE getattr(_, _, _)
getattr(d, c, n) ==
    IF HasOwn(d, c, n) THEN OwnValue(d, c, n) ELSE getattr(d, Parent(c), n)

\* cls.<n> = v: replaces the entry in place or appends a new one
setattr(d, c, n, v) ==
    [d EXCEPT ![c] =
        IF HasOwn(d, c, n)
           THEN [i \in DOMAIN @ |-> IF @[i].name = n THEN Entry(n, v) ELSE @[i]]
           ELSE Append(@, Entry(n, v))]

\* del cls.<n>
delattr(d, c, n) ==
    [d EXCEPT ![c] = LET keep(e) == e.name # n IN SelectSeq(@, keep)]

\* enumeration.py:22-25  the values of the entries whose name does not start with '__'
LoadValues(d, c) ==
    LET public(e) == ~startswith(e.name, <<"_", "_">>)
        kept == SelectSeq(d[c], public)
    IN  [i \in DOMAIN kept |-> kept[i].value]

\* the values are loaded on every call: the saved list is never reused
NeedsLoadAlways(d, c, refresh) == TRUE

\* enumeration.py:21  if refresh or not cls._enum_values
NeedsLoad(d, c, refresh) == refresh \/ getattr(d, c, N_enum_cache).list = <<>>

\* enumeration.py:21-27  the class dictionaries after enum_values(refresh)
AfterEnumValues(d, c, refresh) ==
    IF NeedsLoad(d, c, refresh)
       THEN setattr(d, c, N_enum_cache, List(LoadValues(d, c)))
       ELSE d

\* str.lower()
LowerChar(ch) ==
    CASE ch = "M" -> "m"
      [] ch = "O" -> "o"
      [] ch = "T" -> "t"
      [] ch = "U" -> "u"
      [] OTHER -> ch
Lower(chars) == [i \in DOMAIN chars |-> LowerChar(chars[i])]

\* only the item is lower-cased, the enum value is compared as it is
RECURSIVE MatchItemLowered(_, _, _)
MatchItemLowered(item, values, i) ==
    IF i > Len(values) THEN FALSE
    ELSE IF IsStr(values[i]) /\ item = values[i].str THEN TRUE
    ELSE MatchItemLowered(item, values, i + 1)

\* enumeration.py:43-50  the loop over the values, item already lower-cased
RECURSIVE MatchIgnoreCase(_, _, _)
MatchIgnoreCase(item, values, i) ==
    IF i > Len(values) THEN FALSE
    ELSE IF IsStr(values[i]) /\ item = Lower(values[i].str) THEN TRUE
    ELSE MatchIgnoreCase(item, values, i + 1)

\* enumeration.py:42-52  the result of contains over the list enum_values returned
ContainsResult(item, ignore_case, values) ==
    IF ignore_case = TRUE /\ IsStr(item)
       THEN MatchIgnoreCase(Lower(item.str), values, 1)
       ELSE \E i \in DOMAIN values : values[i] = item

NoCall == [op |-> "none", cls |-> "Enumeration", refresh |-> FALSE, item |-> None,
           ignore_case |-> FALSE, first |-> FALSE, name |-> <<>>]

\* enumeration.py:11-29  cls.enum_values(refresh)
enum_values(c, refresh) ==
    /\ NeedsLoad(classdict, c, refresh) => loads < MaxLoads
    /\ classdict' = AfterEnumValues(classdict, c, refresh)
    /\ ret' = getattr(classdict', c, N_enum_cache)
    /\ call' = [NoCall EXCEPT !.op = "enum_values", !.cls = c, !.refresh = refresh,
                              !.first = c \notin called]
    /\ called' = called \cup {c}
    /\ loads' = IF NeedsLoad(classdict, c, refresh) THEN loads + 1 ELSE loads
    /\ UNCHANGED <<edits, waitVars, countVars>>

\* enumeration.py:31-52  cls.contains(item, refresh, ignore_case)
contains(c, item, refresh, ignore_case) ==
    /\ NeedsLoad(classdict, c, refresh) => loads < MaxLoads
    /\ classdict' = AfterEnumValues(classdict, c, refresh)
    /\ ret' = [bool |-> ContainsResult(item, ignore_case,
                                       getattr(classdict', c, N_enum_cache).list)]
    /\ call' = [NoCall EXCEPT !.op = "contains", !.cls = c, !.refresh = refresh,
                              !.item = item, !.ignore_case = ignore_case,
                              !.first = c \notin called]
    /\ called' = called \cup {c}
    /\ loads' = IF NeedsLoad(classdict, c, refresh) THEN loads + 1 ELSE loads
    /\ UNCHANGED <<edits, waitVars, countVars>>

\* enumeration.py:15-17  the enum changes dynamically: a constant is added or changed
set_constant(c, n, v) ==
    /\ edits < MaxEdits
    /\ classdict' = setattr(classdict, c, n, v)
    /\ call' = [NoCall EXCEPT !.op = "setattr", !.cls = c, !.name = n, !.item = v]
    /\ ret' = None
    /\ edits' = edits + 1
    /\ UNCHANGED <<called, loads, waitVars, countVars>>

\* enumeration.py:15-17  the enum changes dynamically: a constant is removed
del_constant(c, n) ==
    /\ edits < MaxEdits
    /\ HasOwn(classdict, c, n)
    /\ classdict' = delattr(classdict, c, n)
    /\ call' = [NoCall EXCEPT !.op = "delattr", !.cls = c, !.name = n]
    /\ ret' = None
    /\ edits' = edits + 1
    /\ UNCHANGED <<called, loads, waitVars, countVars>>

NextEnum ==
    \/ \E c \in Classes, refresh \in BOOLEAN : enum_values(c, refresh)
    \/ \E c \in {"WorkDay"}, item \in Items, refresh \in BOOLEAN, ignore_case \in BOOLEAN :
          contains(c, item, refresh, ignore_case)
    \/ \E c \in {"WorkDay"}, n \in ConstNames, v \in ConstValues : set_constant(c, n, v)
    \/ \E c \in {"WorkDay"}, n \in ConstNames : del_constant(c, n)

(***************************************************************************)
(* Values a condition can take.  Python compares them with ==.             *)
(***************************************************************************)
Values  == {"True", "False", "None"}
NoValue == "unset"        \* a local that has not been assigned yet

Timeouts == -1 .. MaxTimeout
Periods  == 0 .. MaxPeriod

\* a callable is the sequence of values its successive invocations return; after
\* ScriptLen invocations it keeps returning the last one
Callables == [kind : {"callable"}, script : [1 .. ScriptLen -> Values]]
Variables == [kind : {"variable"}, value : Values]

callable(c) == c.kind = "callable"

\* a callable whose result is taken once and reused (the snapshot of the variable form)
InvokeSnapshot(c, n) == c.script[1]

\* condition(*args, **kwargs), the n-th invocation
Invoke(c, n) == c.script[IF n < ScriptLen THEN n ELSE ScriptLen]

\* utils.py:125-131  end_time = time.time() + timeout, then dispatch on callable()
wait_for_enter ==
    /\ pc = "wait_for"
    /\ end_time' = now + timeout
    /\ pc' = IF callable(condition) THEN "cb_eval" ELSE "var_assign"
    /\ UNCHANGED <<enumVars, countVars>>
    /\ UNCHANGED <<condition, expected_value, timeout, period, raise_exc, now,
                   latest_value, result, last_value, outcome, retval, exc, calls,
                   sleeps, slept, compares, last_step>>

(***************************************************************************)
(* _wait_for_callable, utils.py:93-105                                     *)
(***************************************************************************)
\* utils.py:98 and :103  latest_value = condition(*args, **kwargs)
_wait_for_callable_eval ==
    /\ pc = "cb_eval"
    /\ calls' = calls + 1
    /\ latest_value' = Invoke(condition, calls + 1)
    /\ last_step' = "eval"
    /\ pc' = "cb_while"
    /\ UNCHANGED <<enumVars, countVars>>
    /\ UNCHANGED <<condition, expected_value, timeout, period, raise_exc, now,
                   end_time, result, last_value, outcome, retval, exc, sleeps,
                   slept, compares>>

\* utils.py:99  while time.time() < end_time   (else :105 return False, latest_value)
_wait_for_callable_while ==
    /\ pc = "cb_while"
    /\ IF now < end_time
          THEN /\ pc' = "cb_if"
               /\ UNCHANGED <<result, last_value>>
          ELSE /\ result' = FALSE
               /\ last_value' = latest_value
               /\ pc' = "finish"
    /\ UNCHANGED <<enumVars, countVars>>
    /\ UNCHANGED <<condition, expected_value, timeout, period, raise_exc, now,
                   end_time, latest_value, outcome, retval, exc, calls, sleeps,
                   slept, compares, last_step>>

\* the comparison that sleeps out the period also when the value is equal
_wait_for_callable_if_then_sleep ==
    /\ pc = "cb_if"
    /\ compares' = compares + 1
    /\ last_step' = IF latest_value = expected_value THEN "equal" ELSE "differ"
    /\ pc' = "cb_sleep"
    /\ UNCHANGED <<result, last_value>>
    /\ UNCHANGED <<enumVars, countVars>>
    /\ UNCHANGED <<condition, expected_value, timeout, period, raise_exc, now,
                   end_time, latest_value, outcome, retval, exc, calls, sleeps,
                   slept>>

\* utils.py:100-101  if (latest_value) == expected_value: return True, latest_value
_wait_for_callable_if ==
    /\ pc = "cb_if"
    /\ compares' = compares + 1
    /\ IF latest_value = expected_value
          THEN /\ result' = TRUE
               /\ last_value' = latest_value
               /\ last_step' = "equal"
               /\ pc' = "finish"
          ELSE /\ last_step' = "differ"
               /\ pc' = "cb_sleep"
               /\ UNCHANGED <<result, last_value>>
    /\ UNCHANGED <<enumVars, countVars>>
    /\ UNCHANGED <<condition, expected_value, timeout, period, raise_exc, now,
                   end_time, latest_value, outcome, retval, exc, calls, sleeps,
                   slept>>

\* a sleep during which the clock stands still
_wait_for_callable_sleep_frozen ==
    /\ pc = "cb_sleep"
    /\ sleeps < MaxSleeps
    /\ sleeps' = sleeps + 1
    /\ slept' = slept + period
    /\ last_step' = "sleep"
    /\ pc' = "cb_eval"
    /\ UNCHANGED <<enumVars, countVars>>
    /\ UNCHANGED <<condition, expected_value, timeout, period, raise_exc, now,
                   end_time, latest_value, result, last_value, outcome, retval,
                   exc, calls, compares>>

\* utils.py:102  time.sleep(period)
_wait_for_callable_sleep ==
    /\ pc = "cb_sleep"
    /\ sleeps < MaxSleeps
    /\ now' = now + period
    /\ sleeps' = sleeps + 1
    /\ slept' = slept + period
    /\ last_step' = "sleep"
    /\ pc' = "cb_eval"
    /\ UNCHANGED <<enumVars, countVars>>
    /\ UNCHANGED <<condition, expected_value, timeout, period, raise_exc,
                   end_time, latest_value, result, last_value, outcome, retval,
                   exc, calls, compares>>

(***************************************************************************)
(* _wait_for_variable, utils.py:77-90                                      *)
(***************************************************************************)
\* an assignment that reads a variable another thread has set to expected_value
_wait_for_variable_assign_reread ==
    /\ pc = "var_assign"
    /\ latest_value' = IF sleeps = 0 THEN condition.value ELSE expected_value
    /\ last_step' = "eval"
    /\ pc' = "var_while"
    /\ UNCHANGED <<enumVars, countVars>>
    /\ UNCHANGED <<condition, expected_value, timeout, period, raise_exc, now,
                   end_time, result, last_value, outcome, retval, exc, calls,
                   sleeps, slept, compares>>

\* utils.py:82 and :88  latest_value = condition
_wait_for_variable_assign ==
    /\ pc = "var_assign"
    /\ latest_value' = condition.value
    /\ last_step' = "eval"
    /\ pc' = "var_while"
    /\ UNCHANGED <<enumVars, countVars>>
    /\ UNCHANGED <<condition, expected_value, timeout, period, raise_exc, now,
                   end_time, result, last_value, outcome, retval, exc, calls,
                   sleeps, slept, compares>>

\* the loop test written with <= : a timeout of 0 enters the loop once
_wait_for_variable_while_le ==
    /\ pc = "var_while"
    /\ IF now <= end_time
          THEN /\ pc' = "var_if"
               /\ UNCHANGED <<result, last_value>>
          ELSE /\ result' = FALSE
               /\ last_value' = latest_value
               /\ pc' = "finish"
    /\ UNCHANGED <<enumVars, countVars>>
    /\ UNCHANGED <<condition, expected_value, timeout, period, raise_exc, now,
                   end_time, latest_value, outcome, retval, exc, calls, sleeps,
                   slept, compares, last_step>>

\* utils.py:83  while time.time() < end_time   (else :90 return False, latest_value)
_wait_for_variable_while ==
    /\ pc = "var_while"
    /\ IF now < end_time
          THEN /\ pc' = "var_if"
               /\ UNCHANGED <<result, last_value>>
          ELSE /\ result' = FALSE
               /\ last_value' = latest_value
               /\ pc' = "finish"
    /\ UNCHANGED <<enumVars, countVars>>
    /\ UNCHANGED <<condition, expected_value, timeout, period, raise_exc, now,
                   end_time, latest_value, outcome, retval, exc, calls, sleeps,
                   slept, compares, last_step>>

\* utils.py:84-85  if latest_value == expected_value: return True, latest_value
_wait_for_variable_if ==
    /\ pc = "var_if"
    /\ compares' = compares + 1
    /\ IF latest_value = expected_value
          THEN /\ result' = TRUE
               /\ last_value' = latest_value
               /\ last_step' = "equal"
               /\ pc' = "finish"
          ELSE /\ last_step' = "differ"
               /\ pc' = "var_sleep"
               /\ UNCHANGED <<result, last_value>>
    /\ UNCHANGED <<enumVars, countVars>>
    /\ UNCHANGED <<condition, expected_value, timeout, period, raise_exc, now,
                   end_time, latest_value, outcome, retval, exc, calls, sleeps,
                   slept>>

\* utils.py:87  time.sleep(period)
_wait_for_variable_sleep ==
    /\ pc = "var_sleep"
    /\ sleeps < MaxSleeps
    /\ now' = now + period
    /\ sleeps' = sleeps + 1
    /\ slept' = slept + period
    /\ last_step' = "sleep"
    /\ pc' = "var_assign"
    /\ UNCHANGED <<enumVars, countVars>>
    /\ UNCHANGED <<condition, expected_value, timeout, period, raise_exc,
                   end_time, latest_value, result, last_value, outcome, retval,
                   exc, calls, compares>>

(***************************************************************************)
(* wait_for, utils.py:133-136                                              *)
(***************************************************************************)
\* the raise guarded by raise_exc alone
wait_for_finish_always_raise ==
    /\ pc = "finish"
    /\ IF raise_exc
          THEN /\ outcome' = "TimeoutError"
               /\ exc' = <<expected_value, last_value>>
               /\ UNCHANGED retval
          ELSE /\ outcome' = "returned"
               /\ retval' = result
               /\ UNCHANGED exc
    /\ pc' = "done"
    /\ UNCHANGED <<enumVars, countVars>>
    /\ UNCHANGED <<condition, expected_value, timeout, period, raise_exc, now,
                   end_time, latest_value, result, last_value, calls, sleeps,
                   slept, compares, last_step>>

\* if result is False and raise_exc: raise TimeoutError(...)   else return result
wait_for_finish ==
    /\ pc = "finish"
    /\ IF result = FALSE /\ raise_exc
          THEN /\ outcome' = "TimeoutError"
               /\ exc' = <<expected_value, last_value>>
               /\ UNCHANGED retval
          ELSE /\ outcome' = "returned"
               /\ retval' = result
               /\ UNCHANGED exc
    /\ pc' = "done"
    /\ UNCHANGED <<enumVars, countVars>>
    /\ UNCHANGED <<condition, expected_value, timeout, period, raise_exc, now,
                   end_time, latest_value, result, last_value, calls, sleeps,
                   slept, compares, last_step>>

NextWait ==
    \/ wait_for_enter
    \/ _wait_for_callable_eval
    \/ _wait_for_callable_while
    \/ _wait_for_callable_if
    \/ _wait_for_callable_sleep
    \/ _wait_for_variable_assign
    \/ _wait_for_variable_while
    \/ _wait_for_variable_if
    \/ _wait_for_variable_sleep
    \/ wait_for_finish

(***************************************************************************)
(* Specifications: one per helper, the other helpers being idle.           *)
(***************************************************************************)
\* wait_for is not called
WaitIdle ==
    /\ condition = [kind |-> "variable", value |-> "True"]
    /\ expected_value = "True"
    /\ timeout = 0
    /\ period = 0
    /\ raise_exc = FALSE
    /\ now = 0
    /\ end_time = 0
    /\ latest_value = "unset"
    /\ result = FALSE
    /\ last_value = "unset"
    /\ outcome = "none"
    /\ retval = FALSE
    /\ exc = <<>>
    /\ pc = "idle"
    /\ calls = 0
    /\ sleeps = 0
    /\ slept = 0
    /\ compares = 0
    /\ last_step = "none"

\* no enum class is in use
EnumIdle ==
    /\ classdict = [c \in Classes |-> IF c = "Enumeration" THEN EnumerationDict
                                      ELSE SubclassDict(<<>>)]
    /\ call = NoCall
    /\ ret = None
    /\ called = {}
    /\ loads = 0
    /\ edits = 0

\* none of the line counting functions has been called as a whole
LinesIdle ==
    /\ lop = "none"
    /\ lpath = <<>>
    /\ lret = Returned(0)
    /\ signals = [op \in Functions |-> "none"]

\* count_dir_lines is not called
CountIdle ==
    /\ fs = {}
    /\ dir_path = <<>>
    /\ recursive = FALSE
    /\ file_filters = NoFilters
    /\ todo = {}
    /\ lines = 0
    /\ counted = <<>>
    /\ cpc = "idle"
    /\ cresult = 0
    /\ LinesIdle

\* a call of wait_for with its arguments
InitWait ==
    /\ condition \in Callables \cup Variables
    /\ expected_value \in Values
    /\ timeout \in Timeouts
    /\ period \in Periods
    /\ raise_exc \in BOOLEAN
    /\ now = 0
    /\ end_time = 0
    /\ latest_value = NoValue
    /\ result = FALSE
    /\ last_value = NoValue
    /\ outcome = "none"
    /\ retval = FALSE
    /\ exc = <<>>
    /\ pc = "wait_for"
    /\ calls = 0
    /\ sleeps = 0
    /\ slept = 0
    /\ compares = 0
    /\ last_step = "none"
    /\ EnumIdle
    /\ CountIdle

\* the classes as declared
InitEnum ==
    /\ \E w \in Declarations :
         classdict = [c \in Classes |->
                        CASE c = "Enumeration" -> EnumerationDict
                          [] c = "WorkDay" -> SubclassDict(w)
                          [] c = "ExtDay" -> ExtDayDict]
    /\ call = NoCall
    /\ ret = None
    /\ called = {}
    /\ loads = 0
    /\ edits = 0
    /\ WaitIdle
    /\ CountIdle

\* a call of count_dir_lines with its arguments, on a directory tree
InitCount ==
    /\ fs \in FileSystems
    /\ dir_path \in {<<F_d>>, <<F_d, F_sub>>, <<F_gone>>}
    /\ recursive \in BOOLEAN
    /\ file_filters \in FilterArgs
    /\ todo = {}
    /\ lines = 0
    /\ counted = <<>>
    /\ cpc = "count_dir_lines"
    /\ cresult = 0
    /\ LinesIdle
    /\ WaitIdle
    /\ EnumIdle

\* a directory tree on which the line counting functions are called
InitLines ==
    /\ fs \in FileSystems
    /\ dir_path = <<>>
    /\ recursive \in BOOLEAN
    /\ file_filters \in {NoFilters, Filters(<<R_py>>)}
    /\ todo = {}
    /\ lines = 0
    /\ counted = <<>>
    /\ cpc = "idle"
    /\ cresult = 0
    /\ LinesIdle
    /\ WaitIdle
    /\ EnumIdle

SpecWait  == InitWait /\ [][NextWait]_vars
\* wait_for as a running thread: a step that can be taken is eventually taken
SpecWaitFair == InitWait /\ [][NextWait]_vars /\ WF_vars(NextWait)
SpecEnum  == InitEnum /\ [][NextEnum]_vars
SpecCount == InitCount /\ [][NextCount]_vars
SpecLines == InitLines /\ [][NextLines]_vars

(***************************************************************************)
(* Properties of wait_for                                                  *)
(***************************************************************************)
\* the callable's return value first equals expected_value at its k-th invocation
FirstMatch(c, k) ==
    /\ c.script[k] = expected_value
    /\ \A j \in 1 .. (k - 1) : c.script[j] # expected_value

\* C1: whenever a polling run ends in failure, the last value it reports is the
\* value of the final evaluation of the condition and is not equal to
\* expected_value.
C1_FailureReportsNonMatching ==
    (pc \in {"finish", "done"} /\ result = FALSE)
        => (last_value = latest_value /\ last_value # expected_value)

\* C2: a callable whose return value first equals expected_value at its k-th
\* invocation, with k * period < timeout, makes wait_for return True with the
\* last observed value equal to expected_value; until then the run can proceed.
C2_CallableMatchSucceeds ==
    (/\ callable(condition)
     /\ \E k \in 1 .. ScriptLen : FirstMatch(condition, k) /\ k * period < timeout)
        => /\ pc = "done" => /\ outcome = "returned"
                             /\ retval = TRUE
                             /\ last_value = expected_value
           /\ pc # "done" => ENABLED NextWait

C2_Witness ==
    /\ pc = "done"
    /\ callable(condition)
    /\ FirstMatch(condition, 2)
    /\ period = 1
    /\ 2 * period < timeout
    /\ calls = 2
    /\ retval = TRUE

\* C3: a static condition already equal to expected_value makes wait_for return
\* success with zero calls to sleep, for any timeout and any period.
C3_StaticMatchSucceeds ==
    (pc = "done" /\ ~callable(condition) /\ condition.value = expected_value)
        => (outcome = "returned" /\ retval = TRUE /\ sleeps = 0)

\* C4: wait_for raises TimeoutError exactly when the polling result is failure
\* and raise_exc is set, the error carrying expected_value and the last observed
\* value; otherwise it raises nothing and returns the boolean result.
C4_RaiseIffFailureAndRaiseExc ==
    pc = "done" =>
        /\ outcome \in {"TimeoutError", "returned"}
        /\ outcome = "TimeoutError" <=> (result = FALSE /\ raise_exc)
        /\ outcome = "TimeoutError" => exc = <<expected_value, latest_value>>
        /\ outcome = "returned" => retval = result /\ exc = <<>>

C4_Witness ==
    /\ pc = "done"
    /\ outcome = "TimeoutError"
    /\ raise_exc
    /\ sleeps > 0
    /\ exc = <<expected_value, latest_value>>

\* C5: with timeout <= 0 wait_for performs zero loop iterations: no comparison
\* with expected_value, no sleep, and the result is failure (TimeoutError if
\* raise_exc is set), also when the condition already equals expected_value.
C5_NonPositiveTimeoutFails ==
    timeout <= 0 =>
        /\ compares = 0
        /\ sleeps = 0
        /\ pc \in {"finish", "done"} => result = FALSE
        /\ pc = "done" => IF raise_exc THEN outcome = "TimeoutError"
                                       ELSE outcome = "returned" /\ retval = FALSE

C5_Witness ==
    /\ pc = "done"
    /\ timeout = 0
    /\ ~callable(condition)
    /\ condition.value = expected_value
    /\ outcome = "returned"
    /\ retval = FALSE

\* C13: the cumulative time spent in sleep never exceeds timeout, for every
\* period and timeout, also when period is larger than the time remaining.
C13_SleepWithinTimeout ==
    slept <= IF timeout > 0 THEN timeout ELSE 0

\* C14: a condition that is not callable is a snapshot taken at entry:
\* latest_value is the condition passed in from the first assignment on, so a
\* condition different from expected_value never gives success; the run sleeps
\* once per loop iteration, only before the deadline, and then returns failure
\* with the original value.
C14_StaticConditionIsSnapshot ==
    ~callable(condition) =>
        /\ (pc \in {"var_while", "var_if", "var_sleep", "finish", "done"}
               \/ (pc = "var_assign" /\ sleeps > 0))
              => latest_value = condition.value
        /\ calls = 0
        /\ condition.value # expected_value =>
              /\ result = FALSE
              /\ compares = IF pc = "var_sleep" THEN sleeps + 1 ELSE sleeps
              /\ now = sleeps * period
              /\ sleeps > 0 => now - period < end_time
              /\ pc \in {"finish", "done"} => /\ last_value = condition.value
                                              /\ now >= end_time
              /\ pc = "done" => IF raise_exc
                                   THEN /\ outcome = "TimeoutError"
                                        /\ exc = <<expected_value, condition.value>>
                                   ELSE outcome = "returned" /\ retval = FALSE

C14_Witness ==
    /\ pc = "done"
    /\ ~callable(condition)
    /\ condition.value # expected_value
    /\ sleeps = 3
    /\ compares = 3
    /\ last_value = condition.value

\* one step of a polling run
PollingStep ==
    /\ pc = "wait_for" => (calls = 0 /\ compares = 0 /\ sleeps = 0)
    /\ compares' # compares => /\ compares' = compares + 1
                               /\ last_step = "eval"
                               /\ last_step' \in {"equal", "differ"}
                               /\ last_step' = "equal" <=> latest_value = expected_value
    /\ sleeps' # sleeps => /\ sleeps' = sleeps + 1
                           /\ last_step = "differ"
                           /\ last_step' = "sleep"
    /\ last_step = "equal" => /\ sleeps' = sleeps
                              /\ compares' = compares
                              /\ pc' \in {"finish", "done"}
                              /\ result' = TRUE
                              /\ last_value' = expected_value
    /\ last_step = "sleep" => /\ last_step' = "eval"
                              /\ latest_value' = IF callable(condition)
                                                    THEN Invoke(condition, calls + 1)
                                                    ELSE condition.value
    /\ pc' = "done" => /\ outcome' \in {"returned", "TimeoutError"}
                       /\ result' = TRUE <=> last_step' = "equal"
                       /\ result' = FALSE => now' >= end_time'
                       /\ outcome' = "TimeoutError" => result' = FALSE

\* C15: a polling run goes Pending -> (Checking -> Sleeping)* -> Succeeded or
\* TimedOut: a sleep comes right after a comparison that found the value
\* different, never after one that found it equal (success returns at once with
\* the matched value), a sleep is followed by a re-evaluation of the condition,
\* and the run ends in exactly one of success and timeout.
C15_PollingStateMachine == [][PollingStep]_vars

C15_Witness ==
    /\ pc = "done"
    /\ callable(condition)
    /\ sleeps = 2
    /\ compares = 3
    /\ result = TRUE
    /\ last_step = "equal"

\* C16: with period > 0 every call of wait_for terminates, whatever the callable
\* returns, each invocation returning and each sleep advancing the clock by
\* period; with period = 0 nothing but the clock can end a run without a match:
\* while the clock stands still such a run does not end.
C16_Terminates ==
    /\ (period > 0) ~> (pc = "done")
    /\ []((period = 0 /\ timeout > 0 /\ pc = "done") => result = TRUE)

C16_Witness ==
    /\ pc = "done"
    /\ callable(condition)
    /\ period > 0
    /\ result = FALSE
    /\ sleeps >= 2
    /\ outcome = "TimeoutError"

\* C18: in a run of _wait_for_callable the callable is invoked once more than
\* the run sleeps, so at least once, and every value it returns is compared
\* with expected_value before the run ends.
C18_EveryReturnCompared ==
    (callable(condition) /\ pc \in {"finish", "done"})
        => (calls = sleeps + 1 /\ compares = calls)

(***************************************************************************)
(* Properties of Enumeration                                               *)
(***************************************************************************)
\* the values of the constants currently declared on class c, in declaration order
DeclaredValues(c) ==
    LET const(e) == e.name \in ConstNames
        kept == SelectSeq(classdict[c], const)
    IN  [i \in DOMAIN kept |-> kept[i].value]

Elements(seq) == {seq[i] : i \in DOMAIN seq}

\* class c holds a non-empty list that enum_values loaded on c itself
Loaded(c) ==
    /\ HasOwn(classdict, c, N_enum_cache)
    /\ OwnValue(classdict, c, N_enum_cache).list # <<>>

\* C6: after any sequence of earlier calls, enum_values(refresh=True) on an
\* Enumeration subclass returns exactly the values of the constants currently
\* declared on it: every declared value is present and nothing else is.
C6_RefreshReturnsDeclared ==
    (call.op = "enum_values" /\ call.refresh /\ call.cls \in Subclasses)
        => Elements(ret.list) = Elements(DeclaredValues(call.cls))

\* C7: the first call of enum_values() on a freshly declared Enumeration
\* subclass returns exactly the values of its constants, one entry per constant.
C7_FirstCallReturnsDeclared ==
    (call.op = "enum_values" /\ call.first /\ call.cls \in Subclasses)
        => /\ Len(ret.list) = Len(DeclaredValues(call.cls))
           /\ Elements(ret.list) = Elements(DeclaredValues(call.cls))

\* C8: once enum_values has loaded a non-empty list on a subclass, every step
\* other than a call with refresh=True on that subclass (a call without refresh,
\* a call on another class, a constant added, changed or removed) leaves the
\* list unchanged, and enum_values() without refresh returns that same list.
C8_CachedUntilRefresh ==
    [][\A c \in Subclasses :
         (/\ Loaded(c)
          /\ ~(call'.op \in {"enum_values", "contains"} /\ call'.cls = c /\ call'.refresh))
            => /\ getattr(classdict', c, N_enum_cache) = getattr(classdict, c, N_enum_cache)
               /\ (call'.op = "enum_values" /\ call'.cls = c)
                     => ret' = getattr(classdict, c, N_enum_cache)]_vars

\* a list loaded once on WorkDay is returned after the constants have changed
C8_Witness ==
    /\ call.op = "enum_values"
    /\ call.cls = "WorkDay"
    /\ ~call.refresh
    /\ ~call.first
    /\ Loaded("WorkDay")
    /\ loads = 1
    /\ edits = 1
    /\ ret = OwnValue(classdict, "WorkDay", N_enum_cache)
    /\ Elements(ret.list) # Elements(DeclaredValues("WorkDay"))

\* C9: contains(item, ignore_case=True) with a string item is True exactly when
\* some string enum value equals item after lower-casing both; with ignore_case
\* False or a non-string item it is True exactly when item equals some enum
\* value as it is.  The enum values are those enum_values(refresh) returns.
C9_ContainsSemantics ==
    call.op = "contains" =>
        LET values == getattr(classdict, call.cls, N_enum_cache).list
        IN  ret.bool =
              IF call.ignore_case /\ IsStr(call.item)
                 THEN \E i \in DOMAIN values :
                         /\ IsStr(values[i])
                         /\ Lower(values[i].str) = Lower(call.item.str)
                 ELSE \E i \in DOMAIN values : values[i] = call.item

\* 'mo' is contained in an enum holding 'Mo' with ignore_case=True ...
C9_Witness ==
    /\ call.op = "contains"
    /\ call.item = Str(<<"m", "o">>)
    /\ call.ignore_case
    /\ ret.bool = TRUE
    /\ Str(<<"M", "o">>) \in Elements(getattr(classdict, call.cls, N_enum_cache).list)
    /\ Str(<<"m", "o">>) \notin Elements(getattr(classdict, call.cls, N_enum_cache).list)

\* ... and only with ignore_case=True
C9_WitnessCaseSensitive ==
    /\ call.op = "contains"
    /\ call.item = Str(<<"m", "o">>)
    /\ ~call.ignore_case
    /\ ret.bool = FALSE
    /\ Str(<<"M", "o">>) \in Elements(getattr(classdict, call.cls, N_enum_cache).list)

\* C17: the cache is kept per class: what enum_values returns on a class is
\* the list held by that class itself, loaded by a call on that class, never a
\* list that a call on the base class, a parent or a sibling has loaded.
C17_CacheKeyedBySubtype ==
    (call.op = "enum_values" /\ call.cls \in Classes)
        => /\ HasOwn(classdict, call.cls, N_enum_cache)
           /\ ret = OwnValue(classdict, call.cls, N_enum_cache)

(***************************************************************************)
(* Properties of count_dir_lines                                           *)
(***************************************************************************)
\* the files the directory listing finds
FilesFound == {path \in glob(fs, dir_path, recursive) : isfile(fs, path)}

\* the files selected: with filters, those whose base name matches at least one
SelectedFiles ==
    IF file_filters.given /\ file_filters.list # <<>>
       THEN {path \in FilesFound :
                \E i \in DOMAIN file_filters.list :
                   re_match(file_filters.list[i], basename(path))}
       ELSE FilesFound

RECURSIVE SumOver(_)
SumOver(paths) ==
    IF paths = {} THEN 0
    ELSE LET path == CHOOSE q \in paths : TRUE
         IN  count_file_lines(fs, path) + SumOver(paths \ {path})

Occurrences(seq, x) == Cardinality({i \in DOMAIN seq : seq[i] = x})

\* C10: count_dir_lines on an existing directory returns the sum of
\* count_file_lines over the selected files; with filters a file is selected iff
\* its base name matches at least one filter, and it is counted exactly once even
\* when several filters match it; with no filters every file found is counted
\* exactly once.  ({a.py: 5 lines, b.py: 3 lines} with a *.py filter give 8.)
C10_DirLinesIsSumOverSelected ==
    (cpc = "done" /\ isdir(fs, dir_path)) =>
        /\ cresult = SumOver(SelectedFiles)
        /\ \A path \in SelectedFiles : Occurrences(counted, path) = 1
        /\ \A i \in DOMAIN counted : counted[i] \in SelectedFiles
        /\ (/\ fs = {Dir(<<F_d>>), File(<<F_d, F_a_py>>, Lines(5)),
                     File(<<F_d, F_b_py>>, Lines(3))}
            /\ file_filters = Filters(<<R_py>>)) => cresult = 8

\* a.py (5 lines) and b.py (3 lines), a.py matched by both filters, give 8
C10_Witness ==
    /\ cpc = "done"
    /\ dir_path = <<F_d>>
    /\ fs = {Dir(<<F_d>>), File(<<F_d, F_a_py>>, Lines(5)), File(<<F_d, F_b_py>>, Lines(3))}
    /\ file_filters = Filters(<<R_py, R_a>>)
    /\ Len(counted) = 2
    /\ cresult = 8

(***************************************************************************)
(* Properties of count_file_lines and of the missing-path convention       *)
(***************************************************************************)
\* the number of newline-terminated lines of a content
NewlineTerminated(content) == Cardinality({i \in DOMAIN content : content[i] = NL})

\* C11: for every file content, including the empty file and a file whose last
\* line has no trailing newline, count_file_lines returns the number of
\* newline-terminated lines of the file.
C11_FileLinesAreNewlineTerminated ==
    (lop = "count_file_lines" /\ isfile(fs, lpath))
        => lret = Returned(NewlineTerminated(ContentOf(fs, lpath)))

\* C12: count_lines, count_dir_lines and count_file_lines signal a missing path
\* the same way: all by the sentinel or all by a not-found error.
C12_MissingPathOneConvention ==
    \A a \in Functions, b \in Functions :
        (signals[a] # "none" /\ signals[b] # "none") => signals[a] = signals[b]

=============================================================================
